---- MODULE Spec2Model ----
(***************************************************************************)
(* The benchmark engine of dnspyre: Benchmark.prepare, Benchmark.Run (the  *)
(* coordinator and the per-worker query loop of src/cmd/benchmark.go) and  *)
(* the counter merge of PrintReport (src/unnamed/part_000).                *)
(*                                                                         *)
(* Strings are sequences of tokens (Server) or of characters (EdnsOpt).    *)
(* Probability and the PRNG draw are numerators over ProbScale.            *)
(***************************************************************************)
EXTENDS Integers, Sequences, FiniteSets, TLC

(* ------------------------------ bounds -------------------------------- *)

\* largest Count drawn for a configuration
MaxCount == 2
\* largest Concurrency drawn for a configuration
MaxConcurrency == 2
\* largest number of entries of Queries
MaxQuestions == 2
\* largest number of entries of Types
MaxTypes == 2
\* largest QperConn drawn for a configuration
MaxQperConn == 2
\* resolution of the PRNG draw: u = k / ProbScale, k in 0 .. ProbScale-1
ProbScale == 2
\* the repetition counter i is a signed integer of scaled-down width:
\* it ranges over -(MaxInt+1) .. MaxInt and wraps like Go's int64
MaxInt == 3
\* the instants the clock shows to the runs handed to the reducer: 0 .. MaxStart
MaxStart == 1
\* a configuration plans at most MaxWork queries per worker
MaxWork == 4
\* the deadline of a duration-bounded run arrives before the run has
\* issued more than MaxSent queries
MaxSent == 2

(* --------------------------- configuration ---------------------------- *)

TypeNames == <<"A", "AAAA", "MX", "TXT">>

HexDigits ==
    {"0", "1", "2", "3", "4", "5", "6", "7", "8", "9",
     "a", "b", "c", "d", "e", "f", "A", "B", "C", "D", "E", "F"}

DecDigits == <<"0", "1", "2", "3", "4", "5", "6", "7", "8", "9">>

\* a literal entry of Queries, not yet fully qualified
Lit(k) == [kind |-> "lit", name |-> k, dot |-> FALSE]
\* an http(s):// data source of Queries
Url(k) == [kind |-> "url", name |-> k, dot |-> FALSE]

LitQueries(n) == [k \in 1 .. n |-> Lit(k)]

\* the zero value of Benchmark with the fields the engine reads
DefaultBenchmark ==
    [Server |-> <<"ns">>, Types |-> <<"A">>, Count |-> 1, Duration |-> 0,
     Concurrency |-> 1, Rate |-> 0, RateLimitWorker |-> 0, QperConn |-> 0,
     Probability |-> ProbScale, EdnsOpt |-> <<>>, DNSSEC |-> FALSE,
     Edns0 |-> 0, DOT |-> FALSE, RequestTimeout |-> 5, HistMax |-> 0,
     Rcodes |-> TRUE,
     Queries |-> LitQueries(1), useDoH |-> FALSE, useQuic |-> FALSE]

\* the number of queries one worker is set to issue per repetition
PerRepetition(c) == Len(c.Types) * Len(c.Queries)

\* the number of queries a configuration plans for each worker
PlannedWork(c) == (IF c.Count > 0 THEN c.Count ELSE 1) * PerRepetition(c)

Plain == <<"ns">>
DoH == <<"https://", "ns">>
DoQ == <<"quic://", "ns">>

\* one worker, no limiter: every combination of transport, termination
\* bound, sampling and list lengths within MaxWork, the connection never
\* rotated; and plain DNS with every rotation period, termination bound and
\* list lengths, every iteration sending
SoloConfigs ==
    { c \in
        { [DefaultBenchmark EXCEPT
              !.Server = sk[1], !.QperConn = sk[2],
              !.Count = cd[1], !.Duration = cd[2],
              !.Probability = p,
              !.Types = SubSeq(TypeNames, 1, nt), !.Queries = LitQueries(nq)] :
            sk \in {<<Plain, k>> : k \in 0 .. MaxQperConn} \cup {<<DoH, 0>>},
            cd \in {<<n, 0>> : n \in 0 .. MaxCount} \cup {<<0, 1>>, <<0, -1>>},
            p \in {-1, 0, ProbScale},
            nt \in 0 .. MaxTypes,
            nq \in 0 .. MaxQuestions } :
        /\ PlannedWork(c) <= MaxWork
        /\ c.QperConn > 0 => c.Probability = ProbScale }

\* one worker behind limiters: every combination of limiters, transport,
\* termination bound and sampling, one question and one type
LimitedConfigs ==
    { [DefaultBenchmark EXCEPT
          !.Server = sv,
          !.Count = cd[1], !.Duration = cd[2],
          !.Rate = lim[1], !.RateLimitWorker = lim[2],
          !.Probability = p] :
        sv \in {Plain, DoH},
        cd \in {<<n, 0>> : n \in 1 .. MaxCount} \cup {<<0, 1>>, <<0, -1>>},
        lim \in {<<1, 0>>, <<0, 1>>, <<1, 1>>, <<-1, -1>>},
        p \in {0, ProbScale} }

\* several workers, one question and one type: two workers in count mode
\* with every combination of transport, limiters and sampling; up to
\* MaxConcurrency workers over plain DNS; a duration-bounded run of two
\* workers behind the global limiter; two workers and two repetitions
TeamConfigs ==
    { [DefaultBenchmark EXCEPT
          !.Server = sk[1], !.QperConn = sk[2],
          !.Concurrency = 2,
          !.Rate = lim[1], !.RateLimitWorker = lim[2],
          !.Probability = p] :
        sk \in {<<Plain, 0>>, <<Plain, 1>>, <<DoH, 0>>},
        lim \in {<<0, 0>>, <<1, 1>>},
        p \in {0, ProbScale} }
    \cup
    { [DefaultBenchmark EXCEPT !.Concurrency = cc] : cc \in 2 .. MaxConcurrency }
    \cup
    { [DefaultBenchmark EXCEPT
          !.Count = 0, !.Duration = 1, !.Concurrency = 2, !.Rate = 1],
      [DefaultBenchmark EXCEPT !.Count = 2, !.Concurrency = 2] }

RunConfigs == SoloConfigs \cup LimitedConfigs \cup TeamConfigs

\* configurations that exercise prepare: server forms, termination bounds,
\* EDNS settings, data sources
PrepConfigs ==
    { [DefaultBenchmark EXCEPT
          !.Server = sv, !.Count = cd[1], !.Duration = cd[2],
          !.Edns0 = e, !.EdnsOpt = o, !.DOT = dot] :
        sv \in {<<>>, <<"ns">>, <<"ns", ":", "5353">>, <<"https://", "ns">>,
                <<"https://", "ns", "/q">>, <<"quic://", "ns">>},
        cd \in {<<0, 0>>, <<1, 0>>, <<1, 1>>, <<-1, 0>>, <<-1, 1>>, <<0, 1>>},
        e \in {0, 511, 512, 4096, 4097},
        o \in {<<>>, <<"1", ":", "a", "b">>, <<"1", ":">>, <<"1">>,
               <<"1", ":", "a">>, <<"1", ":", "g", "h">>,
               <<"x", ":", "a", "b">>, <<"1", ":", "a", "b", ":", "c", "d">>,
               <<"6", "5", "5", "3", "5", ":", "F", "f">>,
               <<"6", "5", "5", "3", "6", ":", "a", "b">>},
        dot \in BOOLEAN }
    \cup
    { [DefaultBenchmark EXCEPT !.Queries = qs] :
        qs \in {<<Url(1)>>, <<Lit(1), Url(2)>>} }

\* servers given as an IPv6 literal, bare or in brackets with a port, and
\* DoQ servers with and without a port
PortConfigs ==
    { [DefaultBenchmark EXCEPT !.Server = sv, !.DOT = dot] :
        sv \in {<<"::1">>, <<"[::1]", ":", "5353">>, <<"quic://", "::1">>,
                <<"quic://", "ns", ":", "8853">>},
        dot \in BOOLEAN }

\* one worker, one query: every transport with every combination of the
\* message-shaping options; DoQ with two workers, with two repetitions and
\* with a type list of two; a run that keeps no rcode map
BuildConfigs ==
    { [DefaultBenchmark EXCEPT
          !.Server = sv, !.Edns0 = e, !.EdnsOpt = o, !.DNSSEC = do] :
        sv \in {Plain, DoH, DoQ},
        e \in {0, 512, 4096},
        o \in {<<>>, <<"1", ":", "a", "b">>,
               <<"6", "5", "5", "3", "5", ":", "F", "f", "0", "0">>,
               <<"0", ":">>},
        do \in BOOLEAN }
    \cup
    { [DefaultBenchmark EXCEPT !.Server = DoQ, !.Concurrency = 2],
      [DefaultBenchmark EXCEPT !.Server = DoQ, !.Count = 2],
      [DefaultBenchmark EXCEPT !.Server = DoQ,
                               !.Types = SubSeq(TypeNames, 1, 2)],
      [DefaultBenchmark EXCEPT !.Rcodes = FALSE] }

Configs == RunConfigs \cup PrepConfigs \cup PortConfigs \cup BuildConfigs

\* the configurations of the runs whose termination is checked: one worker
\* in count and in duration mode with every list length, sampling and the
\* limiters; two workers under a deadline; a rejected configuration and a
\* data source that can fail
LiveConfigs ==
    { c \in
        { [DefaultBenchmark EXCEPT
              !.Count = cd[1], !.Duration = cd[2],
              !.Rate = lim[1], !.RateLimitWorker = lim[2],
              !.Probability = p,
              !.Types = SubSeq(TypeNames, 1, nt), !.Queries = LitQueries(nq)] :
            cd \in {<<1, 0>>, <<0, 1>>, <<0, -1>>},
            lim \in {<<0, 0>>, <<1, 1>>},
            p \in {0, ProbScale},
            nt \in 0 .. MaxTypes,
            nq \in 0 .. MaxQuestions } :
        PlannedWork(c) <= MaxSent }
    \cup
    { [DefaultBenchmark EXCEPT
          !.Count = 0, !.Duration = 1, !.Concurrency = 2, !.Rate = 1],
      [DefaultBenchmark EXCEPT !.Server = <<>>],
      [DefaultBenchmark EXCEPT !.Queries = <<Url(1)>>] }

(* ------------------------------ prepare ------------------------------- *)

isHTTPUrl(s) == Len(s) > 0 /\ s[1] \in {"http://", "https://"}

HasQuicPrefix(s) == Len(s) > 0 /\ s[1] = "quic://"

\* url.Parse(Server).Path is non-empty
HasPath(s) == \E k \in DOMAIN s : s[k] = "/q" \/ s[k] = "/dns-query"

\* net.SplitHostPort returns an error: no port separator
SplitHostPortErr(s) == ~ \E k \in DOMAIN s : s[k] = ":"

\* hosts that hold a colon: IPv6 literals
ColonHosts == {"::1"}

\* net.JoinHostPort: host:port, [host]:port when the host holds a colon
JoinHostPort(s, port) ==
    IF \E k \in DOMAIN s : s[k] \in ColonHosts
    THEN <<"[">> \o s \o <<"]", ":", port>>
    ELSE s \o <<":", port>>

\* a port defaulting that knows plain DNS only
addPort53(c) ==
    IF c.useDoH THEN c
    ELSE IF SplitHostPortErr(c.Server)
         THEN [c EXCEPT !.Server = JoinHostPort(@, "53")]
         ELSE c

addPortIfMissing(c) ==
    IF c.useDoH THEN c
    ELSE IF SplitHostPortErr(c.Server)
         THEN IF c.DOT THEN [c EXCEPT !.Server = JoinHostPort(@, "853")]
              ELSE IF c.useQuic THEN [c EXCEPT !.Server = JoinHostPort(@, "853")]
              ELSE [c EXCEPT !.Server = JoinHostPort(@, "53")]
         ELSE c

\* strings.Split(s, ":") : the parts between the separators
RECURSIVE Split(_)
Split(s) ==
    IF \E k \in DOMAIN s : s[k] = ":"
    THEN LET k == CHOOSE j \in DOMAIN s :
                    s[j] = ":" /\ \A h \in 1 .. j - 1 : s[h] # ":"
         IN <<SubSeq(s, 1, k - 1)>> \o Split(SubSeq(s, k + 1, Len(s)))
    ELSE <<s>>

\* hex.DecodeString returns an error: odd length or a non-hex character
hexDecodeErr(s) == Len(s) % 2 # 0 \/ \E k \in DOMAIN s : s[k] \notin HexDigits

DigitValue(ch) == (CHOOSE d \in DOMAIN DecDigits : DecDigits[d] = ch) - 1

RECURSIVE DecimalValue(_)
DecimalValue(s) ==
    IF Len(s) = 0 THEN 0
    ELSE 10 * DecimalValue(SubSeq(s, 1, Len(s) - 1)) + DigitValue(s[Len(s)])

\* strconv.ParseUint(s, 10, 16) returns an error
ParseUintErr(s) ==
    \/ Len(s) = 0
    \/ \E k \in DOMAIN s : \A d \in DOMAIN DecDigits : DecDigits[d] # s[k]
    \/ DecimalValue(s) > 65535

\* the EdnsOpt checks of prepare: "" when the option is well formed
EdnsOptErr(o) ==
    LET split == Split(o)
    IN IF Len(split) # 2 THEN "--ednsopt is not in correct format"
       ELSE IF hexDecodeErr(split[2])
            THEN "--ednsopt is not in correct format, data is not hexadecimal string"
       ELSE IF ParseUintErr(split[1])
            THEN "--ednsopt is not in correct format, code is not a decimal number"
       ELSE ""

\* the Edns0 range check of prepare
Edns0Err(e) == e # 0 /\ (e < 512 \/ e > 4096)

\* the termination-bound check of prepare
BothBoundsErr(c) == c.Duration > 0 /\ c.Count > 0

\* prepare: the error ("" for nil) and the configuration as prepare leaves it
prepare(c) ==
    IF Len(c.Server) = 0
    THEN [err |-> "server for benchmarking must not be empty", b |-> c]
    ELSE
    LET c1 == [c EXCEPT !.useDoH = isHTTPUrl(c.Server),
                        !.useQuic = HasQuicPrefix(c.Server)]
        c2 == IF c1.useQuic THEN [c1 EXCEPT !.Server = Tail(@)] ELSE c1
        c3 == IF c2.useDoH /\ ~HasPath(c2.Server)
              THEN [c2 EXCEPT !.Server = @ \o <<"/dns-query">>] ELSE c2
        c4 == addPortIfMissing(c3)
        c5 == IF c4.Count = 0 /\ c4.Duration = 0
              THEN [c4 EXCEPT !.Count = 1] ELSE c4
        c6 == IF c5.HistMax = 0
              THEN [c5 EXCEPT !.HistMax = c5.RequestTimeout] ELSE c5
    IN IF BothBoundsErr(c5)
       THEN [err |-> "--number and --duration is specified at once, only one can be used",
             b |-> c5]
       ELSE IF Edns0Err(c6.Edns0)
       THEN [err |-> "--edns0 must have value between 512 and 4096", b |-> c6]
       ELSE IF Len(c6.EdnsOpt) # 0 /\ EdnsOptErr(c6.EdnsOpt) # ""
       THEN [err |-> EdnsOptErr(c6.EdnsOpt), b |-> c6]
       ELSE [err |-> "", b |-> c6]

\* dns.Fqdn
Fqdn(q) == [q EXCEPT !.dot = TRUE]

\* prepareQuestions when every download succeeds (a data source holds one line)
prepareQuestions(c) == [k \in DOMAIN c.Queries |-> Fqdn(c.Queries[k])]

\* prepareQuestions can fail: Queries names an http(s) data source
HasUrlSource(c) == \E k \in DOMAIN c.Queries : c.Queries[k].kind = "url"

(* ------------------------------- state -------------------------------- *)

VARIABLES
    input,      \* the Benchmark as the caller built it
    b,          \* the Benchmark, which prepare normalizes in place
    run,        \* Run: "init" (not called), "running", "done" (returned);
                \* "prepared", "prepared again" where prepare alone is run
    runErr,     \* the error Run returned ("" for nil)
    questions,  \* the question list prepareQuestions returned
    ctxErr,     \* ctx.Err() != nil: the root context is cancelled
    limit,      \* the global limiter exists (limit != nil)
    stats,      \* the recorders, one per worker (<<>>: none)
    worker,     \* the worker goroutines' local state, one per worker
    report      \* what PrintReport merged from the recorders Run returned

vars ==
    <<input, b, run, runErr, questions, ctxErr, limit, stats, worker, report>>

Workers == DOMAIN worker

qTypes == b.Types

\* rcodes a response can carry: NOERROR, NXDOMAIN, SERVFAIL
Rcodes == {0, 3, 2}

\* a response; Status is the HTTP status a DoH client surfaces with it
Response(rcode, tc, id) ==
    [Rcode |-> rcode, Truncated |-> tc, IdMatches |-> id,
     Status |-> IF rcode = 2 THEN 500 ELSE 200]

\* the responses a transport returns: each rcode, a truncated response and
\* a response that carries another transaction id
Responses ==
    {Response(rc, FALSE, TRUE) : rc \in Rcodes}
    \cup {Response(0, TRUE, TRUE), Response(3, FALSE, FALSE)}

NoResponse == Response(0, FALSE, TRUE)

\* a Go map: nil, or the keys written so far with their counts
NilMap == [nil |-> TRUE, kv |-> <<>>]

\* make(map[K]int64)
MakeMap == [nil |-> FALSE, kv |-> <<>>]

\* m[k]++ when the map was made; a nil map is not written
MapInc(m, k) ==
    IF m.nil THEN m
    ELSE IF k \in DOMAIN m.kv
         THEN [m EXCEPT !.kv[k] = @ + 1]
         ELSE [m EXCEPT !.kv = @ @@ (k :> 1)]

\* a question that asks for the address whatever the type
QuestionTypeA(q, qt) == [Name |-> q, Qtype |-> "A", Qclass |-> "IN"]

\* dns.Question{Name: q, Qtype: qt, Qclass: dns.ClassINET}
Question(q, qt) == [Name |-> q, Qtype |-> qt, Qclass |-> "IN"]

\* the zero value of Counters
NewCounters ==
    [Total |-> 0, IOError |-> 0, Success |-> 0, Negative |-> 0, Error |-> 0,
     IDmismatch |-> 0, Truncated |-> 0]

\* the recorder Run creates for a worker: Codes only with b.Rcodes,
\* DoHStatusCodes only with DoH; Hist counts the observations per latency
NewStats(c) ==
    [Counters |-> NewCounters, Errors |-> <<>>, Timings |-> <<>>,
     Hist |-> MakeMap,
     Codes |-> IF c.Rcodes THEN MakeMap ELSE NilMap,
     Qtypes |-> MakeMap,
     DoHStatusCodes |-> IF c.useDoH THEN MakeMap ELSE NilMap]

\* ResultStats.record: err is "nil" or the error; resp counts when err is nil
record(st, req, resp, err, start, latency) ==
    IF err # "nil"
    THEN [st EXCEPT !.Counters.Total = @ + 1, !.Counters.IOError = @ + 1,
                    !.Errors = Append(@, [Start |-> start, Err |-> err])]
    ELSE [st EXCEPT
            !.Counters.Total = @ + 1,
            !.Counters.Success = IF resp.Rcode = 0 THEN @ + 1 ELSE @,
            !.Counters.Negative = IF resp.Rcode = 3 THEN @ + 1 ELSE @,
            !.Counters.Error = IF resp.Rcode \notin {0, 3} THEN @ + 1 ELSE @,
            !.Qtypes = MapInc(@, req.Question[1].Qtype),
            !.Codes = MapInc(@, resp.Rcode),
            !.Counters.Truncated = IF resp.Truncated THEN @ + 1 ELSE @,
            !.Counters.IDmismatch = IF ~resp.IdMatches THEN @ + 1 ELSE @,
            !.Hist = MapInc(@, latency),
            !.Timings = Append(@, [Start |-> start, Duration |-> latency]),
            !.DoHStatusCodes = MapInc(@, resp.Status)]

\* PrintReport's merge of the recorders' counters, in the order of stats
RECURSIVE MergePrefix(_, _)
MergePrefix(ss, n) ==
    IF n = 0 THEN NewCounters
    ELSE LET totalCounters == MergePrefix(ss, n - 1)
             s == ss[n]
         IN [Total |-> totalCounters.Total + s.Counters.Total,
             IOError |-> totalCounters.IOError + s.Counters.IOError,
             Success |-> totalCounters.Success + s.Counters.Success,
             Negative |-> totalCounters.Negative + s.Counters.Negative,
             Error |-> totalCounters.Error + s.Counters.Error,
             IDmismatch |-> totalCounters.IDmismatch + s.Counters.IDmismatch,
             Truncated |-> totalCounters.Truncated + s.Counters.Truncated]

\* a merge that loses the I/O errors of all recorders but the last
MergeDroppingIOError(ss) ==
    IF Len(ss) = 0 THEN NewCounters
    ELSE [MergePrefix(ss, Len(ss)) EXCEPT !.IOError = ss[Len(ss)].Counters.IOError]

\* totalCounters after PrintReport's loop over stats
MergeCounters(ss) == MergePrefix(ss, Len(ss))

\* the goroutine's locals when it starts
NewWorker(c) ==
    [pc |-> "loop", i |-> 0, qi |-> 1, ti |-> 1, co |-> "nil",
     workerLimit |-> c.RateLimitWorker > 0, takeDone |-> FALSE,
     sent |-> 0, dials |-> 0, failures |-> 0, gTakes |-> 0, wTakes |-> 0,
     skipped |-> FALSE, cancelledInTake |-> FALSE,
     cancelledInFlight |-> FALSE, last |-> <<>>, m |-> <<>>, conns |-> <<>>]

\* PrintReport has not been called
NoReport == [pc |-> "none"]

\* Run has not been called on configuration c
InitWith(c) ==
    /\ input = c
    /\ b = input
    /\ run = "init"
    /\ runErr = ""
    /\ questions = <<>>
    /\ ctxErr = FALSE
    /\ limit = FALSE
    /\ stats = <<>>
    /\ worker = <<>>
    /\ report = NoReport

Init == \E c \in Configs : InitWith(c)

(* -------------------------------- Run --------------------------------- *)

\* Run returns the error of prepare
RunPrepareFail ==
    /\ run = "init"
    /\ prepare(b).err # ""
    /\ b' = prepare(b).b
    /\ run' = "done"
    /\ runErr' = prepare(b).err
    /\ UNCHANGED <<input, questions, ctxErr, limit, stats, worker, report>>

\* Run returns the error of prepareQuestions (a download failed)
RunQuestionsFail ==
    /\ run = "init"
    /\ prepare(b).err = ""
    /\ HasUrlSource(prepare(b).b)
    /\ b' = prepare(b).b
    /\ run' = "done"
    /\ runErr' = "failed to download file"
    /\ UNCHANGED <<input, questions, ctxErr, limit, stats, worker, report>>

\* a Run that goes on after prepare returned an error
RunSpawnDespiteErr ==
    /\ run = "init"
    /\ LET c == prepare(b).b
       IN /\ b' = c
          /\ questions' = prepareQuestions(c)
          /\ ctxErr' = (ctxErr \/ c.Duration < 0)
          /\ limit' = (c.Rate > 0)
          /\ stats' = [w \in 1 .. c.Concurrency |-> NewStats(c)]
          /\ worker' = [w \in 1 .. c.Concurrency |-> NewWorker(c)]
    /\ run' = "running"
    /\ UNCHANGED <<input, runErr, report>>

\* Run up to wg.Wait(): the deadline context, the global limiter, the
\* recorders and the worker goroutines
RunSpawn ==
    /\ run = "init"
    /\ prepare(b).err = ""
    /\ LET c == prepare(b).b
       IN /\ b' = c
          /\ questions' = prepareQuestions(c)
          /\ ctxErr' = (ctxErr \/ c.Duration < 0)
          /\ limit' = (c.Rate > 0)
          /\ stats' = [w \in 1 .. c.Concurrency |-> NewStats(c)]
          /\ worker' = [w \in 1 .. c.Concurrency |-> NewWorker(c)]
    /\ run' = "running"
    /\ UNCHANGED <<input, runErr, report>>

\* a Run that returns once one worker has exited
RunReturnEarly ==
    /\ run = "running"
    /\ \E w \in Workers : worker[w].pc = "done"
    /\ run' = "done"
    /\ UNCHANGED <<input, b, runErr, questions, ctxErr, limit, stats, worker,
                   report>>

\* wg.Wait() returns and Run returns stats, nil
RunReturn ==
    /\ run = "running"
    /\ \A w \in Workers : worker[w].pc = "done"
    /\ run' = "done"
    /\ UNCHANGED <<input, b, runErr, questions, ctxErr, limit, stats, worker,
                   report>>

(* --------------------------- cancellation ----------------------------- *)

\* the root context becomes cancelled; notes which workers it finds
\* inside checkLimit and which inside the transport send
CancelCtx ==
    /\ ctxErr' = TRUE
    /\ worker' = [w \in Workers |->
                    [worker[w] EXCEPT
                        !.cancelledInTake = @ \/ worker[w].pc \in {"selG", "selW"},
                        !.cancelledInFlight = @ \/ worker[w].pc = "inflight"]]

\* the timeout of context.WithTimeout(ctx, b.Duration) expires
Deadline ==
    /\ run = "running"
    /\ b.Duration > 0
    /\ ~ctxErr
    /\ CancelCtx
    /\ UNCHANGED <<input, b, run, runErr, questions, limit, stats, report>>

\* the caller cancels the context it passed to Run
ExternalCancel ==
    /\ run \in {"init", "running"}
    /\ ~ctxErr
    /\ CancelCtx
    /\ UNCHANGED <<input, b, run, runErr, questions, limit, stats, report>>

(* ------------------------------ workers ------------------------------- *)

\* i++ on a signed integer of the model's width
Inc(n) == IF n = MaxInt THEN -(MaxInt + 1) ELSE n + 1

\* a loop that runs one repetition too many
LoopCondInclusive(c, n) == n <= c.Count \/ c.Duration # 0

\* the condition of `for i = 0; i < b.Count || b.Duration != 0; i++`
LoopCond(c, n) == n < c.Count \/ c.Duration # 0

\* `rando.Float64() > b.Probability` for the draw u / ProbScale
Skip(c, u) == u > c.Probability

\* `co != nil && b.QperConn > 0 && i%b.QperConn == 0`
RotateConn(c, conn, n) == conn # "nil" /\ c.QperConn > 0 /\ n % c.QperConn = 0

\* the worker owns a connection (plain DNS, DoT): the shared query is nil
OwnsConn(c) == ~c.useDoH /\ ~c.useQuic

\* where the iteration goes after the sampling check: the global limiter,
\* else the worker's limiter, else the query
FirstStage(lim, wlim) ==
    IF lim THEN "selG" ELSE IF wlim THEN "selW" ELSE "query"

\* an iteration that leaves out the worker's limiter after the global one
StageAfterGlobalOnly(wlim) == "query"

\* where the iteration goes after checkLimit(ctx, limit) returned nil
StageAfterGlobal(wlim) == IF wlim THEN "selW" ELSE "query"

\* the cases of checkLimit's select that are ready
SelectCases(done, cancelled) ==
    (IF done THEN {"done"} ELSE {}) \cup (IF cancelled THEN {"ctx"} ELSE {})

RECURSIVE SumSent(_)
SumSent(n) == IF n = 0 THEN 0 ELSE SumSent(n - 1) + worker[n].sent

\* the deadline of a duration-bounded run has not arrived while the run
\* has issued fewer than MaxSent queries
InBudget == b.Duration = 0 \/ SumSent(Len(worker)) < MaxSent

\* nor has it arrived while a worker has begun fewer than MaxCount
\* repetitions
InTime(n) == b.Duration = 0 \/ ctxErr \/ n < MaxCount

\* the iteration a worker is in: repetition, question index, type index
Pos(ws) == <<ws.i, ws.qi, ws.ti>>

\* loops nested the other way round: the types outside, the questions inside
AdvanceTypesOutside(ws) ==
    IF ws.qi < Len(questions) THEN [ws EXCEPT !.pc = "top", !.qi = @ + 1]
    ELSE IF ws.ti < Len(qTypes)
         THEN [ws EXCEPT !.pc = "top", !.ti = @ + 1, !.qi = 1]
         ELSE [ws EXCEPT !.pc = "loop", !.i = Inc(@), !.qi = 1, !.ti = 1]

\* the loops' step after one (i, q, qt) iteration ends
Advance(ws) ==
    IF ws.ti < Len(qTypes) THEN [ws EXCEPT !.pc = "top", !.ti = @ + 1]
    ELSE IF ws.qi < Len(questions)
         THEN [ws EXCEPT !.pc = "top", !.qi = @ + 1, !.ti = 1]
         ELSE [ws EXCEPT !.pc = "loop", !.i = Inc(@), !.qi = 1, !.ti = 1]

Frame == UNCHANGED <<input, b, run, runErr, questions, ctxErr, limit, report>>

\* the outer loop's condition is false: the goroutine returns
WorkerFinish(w) ==
    /\ worker[w].pc = "loop"
    /\ ~LoopCond(b, worker[w].i)
    /\ worker' = [worker EXCEPT ![w].pc = "done"]
    /\ UNCHANGED stats
    /\ Frame

\* a repetition over an empty question list or an empty type list: no
\* iteration runs and the outer loop goes on
EmptyRepetition(w) ==
    /\ worker[w].pc = "loop"
    /\ LoopCond(b, worker[w].i)
    /\ InTime(worker[w].i)
    /\ Len(questions) = 0 \/ Len(qTypes) = 0
    /\ worker' = [worker EXCEPT ![w].i = Inc(@)]
    /\ UNCHANGED stats
    /\ Frame

\* a repetition starts with the first question and the first type
EnterRepetition(w) ==
    /\ worker[w].pc = "loop"
    /\ LoopCond(b, worker[w].i)
    /\ InTime(worker[w].i)
    /\ Len(questions) > 0 /\ Len(qTypes) > 0
    /\ worker' = [worker EXCEPT ![w].pc = "top"]
    /\ UNCHANGED stats
    /\ Frame

\* `if ctx.Err() != nil { return }`
ExitCancelled(w) ==
    /\ worker[w].pc = "top"
    /\ ctxErr
    /\ worker' = [worker EXCEPT ![w].pc = "done"]
    /\ UNCHANGED stats
    /\ Frame

\* the draw exceeds Probability: `continue`
SkipIteration(w) ==
    /\ worker[w].pc = "top"
    /\ ~ctxErr
    /\ InBudget
    /\ \E u \in 0 .. ProbScale - 1 : Skip(b, u)
    /\ worker' = [worker EXCEPT ![w] = Advance([@ EXCEPT !.skipped = TRUE])]
    /\ UNCHANGED stats
    /\ Frame

\* the draw passes: the iteration goes to its first limiter (checkLimit
\* starts the goroutine that Takes) or to the query
PassSampling(w) ==
    /\ worker[w].pc = "top"
    /\ ~ctxErr
    /\ InBudget
    /\ \E u \in 0 .. ProbScale - 1 : ~Skip(b, u)
    /\ worker' = [worker EXCEPT
                    ![w].pc = FirstStage(limit, worker[w].workerLimit),
                    ![w].takeDone = FALSE]
    /\ UNCHANGED stats
    /\ Frame

\* limiter.Take() returns in checkLimit's goroutine, which closes done
TakeReturns(w) ==
    /\ worker[w].pc \in {"selG", "selW"}
    /\ ~worker[w].takeDone
    /\ worker' = [worker EXCEPT
                    ![w].takeDone = TRUE,
                    ![w].gTakes = IF worker[w].pc = "selG" THEN @ + 1 ELSE @,
                    ![w].wTakes = IF worker[w].pc = "selW" THEN @ + 1 ELSE @]
    /\ UNCHANGED stats
    /\ Frame

\* checkLimit's select takes `case <-done`: nil
SelectDone(w) ==
    /\ worker[w].pc \in {"selG", "selW"}
    /\ "done" \in SelectCases(worker[w].takeDone, ctxErr)
    /\ worker' = [worker EXCEPT
                    ![w].pc = IF worker[w].pc = "selG"
                              THEN StageAfterGlobal(worker[w].workerLimit)
                              ELSE "query",
                    ![w].takeDone = FALSE]
    /\ UNCHANGED stats
    /\ Frame

\* checkLimit's select takes `case <-ctx.Done()`: the goroutine returns
SelectCtx(w) ==
    /\ worker[w].pc \in {"selG", "selW"}
    /\ "ctx" \in SelectCases(worker[w].takeDone, ctxErr)
    /\ worker' = [worker EXCEPT ![w].pc = "done"]
    /\ UNCHANGED stats
    /\ Frame

\* the transaction ids uint16(rando.Uint32()) can give: the two ends of
\* the range stand for it
Ids == {0, 65535}

defaultEdns0BufferSize == 1232

\* dns.Msg{}
NoMsg == [Id |-> 0, Question |-> <<>>, Extra |-> <<>>]

\* m.IsEdns0(): the place of the OPT record in Extra, 0 for nil
IsEdns0(m) ==
    IF Len(m.Extra) = 0 THEN 0
    ELSE CHOOSE k \in DOMAIN m.Extra : \A j \in DOMAIN m.Extra : j <= k

\* an option set that forgets the payload size it is given
SetEdns0Default(m, udpsize) ==
    [m EXCEPT !.Extra = Append(@, [UDPSize |-> defaultEdns0BufferSize,
                                   Do |-> FALSE, Option |-> <<>>])]

\* m.SetEdns0(udpsize, false): appends an OPT record
SetEdns0(m, udpsize) ==
    [m EXCEPT !.Extra = Append(@, [UDPSize |-> udpsize, Do |-> FALSE,
                                   Option |-> <<>>])]

HexLower ==
    <<"0", "1", "2", "3", "4", "5", "6", "7", "8", "9",
      "a", "b", "c", "d", "e", "f">>

HexUpper ==
    <<"0", "1", "2", "3", "4", "5", "6", "7", "8", "9",
      "A", "B", "C", "D", "E", "F">>

HexValue(ch) ==
    IF \E d \in DOMAIN HexLower : HexLower[d] = ch
    THEN (CHOOSE d \in DOMAIN HexLower : HexLower[d] = ch) - 1
    ELSE (CHOOSE d \in DOMAIN HexUpper : HexUpper[d] = ch) - 1

\* hex.DecodeString of a well-formed string: one byte per two digits
DecodeString(str) ==
    [k \in 1 .. Len(str) \div 2 |->
        16 * HexValue(str[2 * k - 1]) + HexValue(str[2 * k])]

addEdnsOpt(m, ednsOpt) ==
    LET m1 == IF IsEdns0(m) = 0 THEN SetEdns0(m, defaultEdns0BufferSize) ELSE m
        o == IsEdns0(m1)
        split == Split(ednsOpt)
        data == DecodeString(split[2])
        code == DecimalValue(split[1])
    IN [m1 EXCEPT !.Extra[o].Option = Append(@, [Code |-> code, Data |-> data])]

\* a builder that draws the transaction id in every mode
BuildMsgAnyId(c, q, qt, id) ==
    [NoMsg EXCEPT !.Id = id, !.Question = <<Question(q, qt)>>]

\* the message an iteration builds for question q and type qt, the PRNG
\* drawing id
BuildMsg(c, q, qt, id) ==
    LET m0 == [NoMsg EXCEPT !.Question = <<Question(q, qt)>>,
                            !.Id = IF c.useQuic THEN 0 ELSE id]
        m1 == IF c.Edns0 > 0 THEN SetEdns0(m0, c.Edns0) ELSE m0
        m2 == IF Len(c.EdnsOpt) > 0 THEN addEdnsOpt(m1, c.EdnsOpt) ELSE m1
        m3 == IF c.DNSSEC /\ IsEdns0(m2) = 0
              THEN SetEdns0(m2, defaultEdns0BufferSize) ELSE m2
    IN IF c.DNSSEC THEN [m3 EXCEPT !.Extra[IsEdns0(m3)].Do = TRUE] ELSE m3

\* the message worker w builds in its present iteration
WorkerMsg(w, id) ==
    BuildMsg(b, questions[worker[w].qi], qTypes[worker[w].ti], id)

\* the connection the query func holds when it comes to dial: closed and
\* dropped if it is due for rotation
AfterRotation(ws) == IF RotateConn(b, ws.co, ws.i) THEN "nil" ELSE ws.co

\* a close that does nothing
CloseNothing(conns) == conns

\* co.Close(): the connection the handle points at, the last one the
\* worker dialed, is closed
Close(conns) == [conns EXCEPT ![Len(conns)] = "closed"]

\* the connections the worker has dialed when the query func comes to
\* dial: the one in hand is closed if it is due for rotation
RotatedConns(ws) ==
    IF RotateConn(b, ws.co, ws.i) THEN Close(ws.conns) ELSE ws.conns

\* a worker that gives up when it cannot dial
DialFailsAndReturns(w) ==
    /\ worker[w].pc = "query"
    /\ OwnsConn(b)
    /\ AfterRotation(worker[w]) = "nil"
    /\ worker' = [worker EXCEPT
                    ![w] = [@ EXCEPT !.pc = "done", !.co = "nil", !.sent = @ + 1,
                                     !.dials = @ + 1, !.failures = @ + 1,
                                     !.last = Pos(worker[w]),
                                     !.conns = RotatedConns(worker[w])]]
    /\ \E id \in Ids :
          stats' = [stats EXCEPT
                       ![w] = record(@, WorkerMsg(w, id), NoResponse, "io", 0, 0)]
    /\ Frame

\* query(...) is called and DialContext fails: the call returns the
\* error, which is recorded
DialFails(w) ==
    /\ worker[w].pc = "query"
    /\ OwnsConn(b)
    /\ AfterRotation(worker[w]) = "nil"
    /\ worker' = [worker EXCEPT
                    ![w] = Advance([@ EXCEPT !.co = "nil", !.sent = @ + 1,
                                             !.dials = @ + 1,
                                             !.failures = @ + 1,
                                             !.last = Pos(worker[w]),
                                             !.conns = RotatedConns(worker[w])])]
    /\ \E id \in Ids :
          stats' = [stats EXCEPT
                       ![w] = record(@, WorkerMsg(w, id), NoResponse, "io", 0, 0)]
    /\ Frame

\* query(...) is called: the request goes out, on the worker's connection
\* (dialed now if there is none) or through the shared DoH / DoQ client
SendQuery(w) ==
    /\ worker[w].pc = "query"
    /\ \E id \in Ids :
       worker' = [worker EXCEPT
                    ![w].m = WorkerMsg(w, id),
                    ![w].pc = "inflight",
                    ![w].sent = @ + 1,
                    ![w].last = Pos(worker[w]),
                    ![w].co = IF OwnsConn(b) THEN "open" ELSE "nil",
                    ![w].dials = IF OwnsConn(b) /\ AfterRotation(worker[w]) = "nil"
                                 THEN @ + 1 ELSE @,
                    ![w].conns = IF OwnsConn(b) /\ AfterRotation(worker[w]) = "nil"
                                 THEN Append(RotatedConns(worker[w]), "open")
                                 ELSE @]
    /\ UNCHANGED stats
    /\ Frame

\* a worker that records errors only: a response goes unrecorded
ExchangeReturnsUnrecorded(w) ==
    /\ worker[w].pc = "inflight"
    /\ worker' = [worker EXCEPT ![w] = Advance([@ EXCEPT !.m = <<>>])]
    /\ UNCHANGED stats
    /\ Frame

\* the exchange returns a response, which is recorded
ExchangeReturns(w) ==
    /\ worker[w].pc = "inflight"
    /\ \E resp \in Responses :
          stats' = [stats EXCEPT
                       ![w] = record(@, worker[w].m, resp, "nil", 0, 0)]
    /\ worker' = [worker EXCEPT ![w] = Advance([@ EXCEPT !.m = <<>>])]
    /\ Frame

\* an exchange failure after which the worker keeps its connection
ExchangeFailsKeepsConn(w) ==
    /\ worker[w].pc = "inflight"
    /\ \E err \in {"io"} \cup (IF ctxErr THEN {"canceled"} ELSE {}) :
          stats' = [stats EXCEPT
                       ![w] = record(@, worker[w].m, NoResponse, err, 0, 0)]
    /\ worker' = [worker EXCEPT
                    ![w] = Advance([@ EXCEPT !.failures = @ + 1, !.m = <<>>])]
    /\ Frame

\* the exchange fails (the context's cancellation is one cause): the
\* worker's connection is closed and dropped, the error is recorded
ExchangeFails(w) ==
    /\ worker[w].pc = "inflight"
    /\ \E err \in {"io"} \cup (IF ctxErr THEN {"canceled"} ELSE {}) :
          stats' = [stats EXCEPT
                       ![w] = record(@, worker[w].m, NoResponse, err, 0, 0)]
    /\ worker' = [worker EXCEPT
                    ![w] = Advance([@ EXCEPT
                                      !.co = "nil", !.failures = @ + 1,
                                      !.m = <<>>,
                                      !.conns = IF OwnsConn(b) THEN Close(@)
                                                ELSE @])]
    /\ Frame

Finishes == \E w \in Workers : WorkerFinish(w)
SpinsEmpty == \E w \in Workers : EmptyRepetition(w)
EntersRepetition == \E w \in Workers : EnterRepetition(w)
ExitsCancelled == \E w \in Workers : ExitCancelled(w)
Skips == \E w \in Workers : SkipIteration(w)
Passes == \E w \in Workers : PassSampling(w)
TakeDone == \E w \in Workers : TakeReturns(w)
SelectsDone == \E w \in Workers : SelectDone(w)
SelectsCtx == \E w \in Workers : SelectCtx(w)
DialFailure == \E w \in Workers : DialFails(w)
Sends == \E w \in Workers : SendQuery(w)
Responds == \E w \in Workers : ExchangeReturns(w)
ExchangeFailure == \E w \in Workers : ExchangeFails(w)

\* one step of one worker goroutine
WorkerNext ==
    \/ Finishes
    \/ SpinsEmpty
    \/ EntersRepetition
    \/ ExitsCancelled
    \/ Skips
    \/ Passes
    \/ SelectsDone
    \/ SelectsCtx
    \/ DialFailure
    \/ Sends
    \/ Responds
    \/ ExchangeFailure

Next ==
    \/ RunPrepareFail
    \/ RunQuestionsFail
    \/ RunSpawn
    \/ RunReturn
    \/ Deadline
    \/ ExternalCancel
    \/ TakeDone
    \/ WorkerNext

Spec == Init /\ [][Next]_vars

(* ------------------------------ fairness ------------------------------ *)

\* the steps of worker w's goroutine
WorkerStep(w) ==
    /\ w \in Workers
    /\ \/ WorkerFinish(w)
       \/ EmptyRepetition(w)
       \/ EnterRepetition(w)
       \/ ExitCancelled(w)
       \/ SkipIteration(w)
       \/ PassSampling(w)
       \/ SelectDone(w)
       \/ SelectCtx(w)
       \/ DialFails(w)
       \/ SendQuery(w)
       \/ ExchangeReturns(w)
       \/ ExchangeFails(w)

\* Run is called; the scheduler runs every goroutine that can run; every
\* limiter Take and every transport send returns
Fairness ==
    /\ WF_vars(RunPrepareFail \/ RunQuestionsFail \/ RunSpawn)
    /\ WF_vars(RunReturn)
    /\ \A w \in 1 .. MaxConcurrency : WF_vars(WorkerStep(w))
    /\ \A w \in 1 .. MaxConcurrency : WF_vars(w \in Workers /\ TakeReturns(w))

LiveInit == \E c \in LiveConfigs : InitWith(c)

\* the runs of LiveConfigs under fair scheduling
LiveSpec == LiveInit /\ [][Next]_vars /\ Fairness

(* -------------------------- prepare, repeated ------------------------- *)

\* the configurations prepare is applied to twice: those of PrepConfigs and
\* PortConfigs, and each transport with HistMax left at zero and set
IdemConfigs ==
    PrepConfigs \cup PortConfigs
    \cup { [DefaultBenchmark EXCEPT !.Server = sv, !.DOT = dot, !.HistMax = h] :
             sv \in {Plain, DoH, DoQ}, dot \in BOOLEAN, h \in {0, 7} }

IdemInit == \E c \in IdemConfigs : InitWith(c)

\* b.prepare() on a Benchmark as the caller built it
Prepare ==
    /\ run = "init"
    /\ b' = prepare(b).b
    /\ runErr' = prepare(b).err
    /\ run' = "prepared"
    /\ UNCHANGED <<input, questions, ctxErr, limit, stats, worker, report>>

\* b.prepare() on the Benchmark an earlier prepare accepted, as the next
\* Run on the same Benchmark calls it
PrepareAgain ==
    /\ run = "prepared"
    /\ runErr = ""
    /\ b' = prepare(b).b
    /\ runErr' = prepare(b).err
    /\ run' = "prepared again"
    /\ UNCHANGED <<input, questions, ctxErr, limit, stats, worker, report>>

IdemNext == Prepare \/ PrepareAgain

\* prepare applied once and, where it accepted, once more
IdemSpec == IdemInit /\ [][IdemNext]_vars

(* ------------------------------ reducer ------------------------------- *)

\* totals[k] += v for every key of a recorder's map; a nil map is passed over
AddMap(totals, m) ==
    IF m.nil THEN totals
    ELSE [k \in DOMAIN totals \cup DOMAIN m.kv |->
             (IF k \in DOMAIN totals THEN totals[k] ELSE 0)
             + (IF k \in DOMAIN m.kv THEN m.kv[k] ELSE 0)]

\* the totals of the map named field after PrintReport's loop over ss[1..n]
RECURSIVE MergeMaps(_, _, _)
MergeMaps(ss, field, n) ==
    IF n = 0 THEN <<>> ELSE AddMap(MergeMaps(ss, field, n - 1), ss[n][field])

\* append(times, s.Timings...) over ss[1..n], and the same for the errors
RECURSIVE Concat(_, _, _)
Concat(ss, field, n) ==
    IF n = 0 THEN <<>> ELSE Concat(ss, field, n - 1) \o ss[n][field]

\* an insertion that also passes the elements of the same instant
InsertBeforeEqual(sorted, x) ==
    LET before == SelectSeq(sorted, LAMBDA e : e.Start < x.Start)
    IN before \o <<x>> \o SubSeq(sorted, Len(before) + 1, Len(sorted))

\* one pass of the insertion sort of sort.SliceStable: x moves down while
\* it is Before the element below it
RECURSIVE InsertByStart(_, _)
InsertByStart(sorted, x) ==
    IF Len(sorted) > 0 /\ x.Start < sorted[Len(sorted)].Start
    THEN Append(InsertByStart(SubSeq(sorted, 1, Len(sorted) - 1), x),
                sorted[Len(sorted)])
    ELSE Append(sorted, x)

\* sort.SliceStable(s, less by Start) on the first n elements
RECURSIVE SliceStable(_, _)
SliceStable(s, n) ==
    IF n = 0 THEN <<>> ELSE InsertByStart(SliceStable(s, n - 1), s[n])

\* PrintReport up to the plots: the merge loop and the two sorts
PrintReport ==
    /\ run = "done" /\ runErr = ""
    /\ report.pc = "none"
    /\ LET n == Len(stats)
           times == Concat(stats, "Timings", n)
           errTimes == Concat(stats, "Errors", n)
       IN report' =
            [pc |-> "merged",
             totalCounters |-> MergeCounters(stats),
             timings |-> MergeMaps(stats, "Hist", n),
             codeTotals |-> MergeMaps(stats, "Codes", n),
             qtypeTotals |-> MergeMaps(stats, "Qtypes", n),
             dohResponseStatusesTotals |-> MergeMaps(stats, "DoHStatusCodes", n),
             times |-> SliceStable(times, Len(times)),
             errTimes |-> SliceStable(errTimes, Len(errTimes))]
    /\ UNCHANGED <<input, b, run, runErr, questions, ctxErr, limit, stats, worker>>

\* the runs whose recorders the reducer is given: plain DNS and DoH, with
\* and without the rcode map, no worker up to MaxConcurrency workers
ReduceConfigs ==
    { [DefaultBenchmark EXCEPT
          !.Server = sv, !.Rcodes = rc, !.Concurrency = n,
          !.Types = SubSeq(TypeNames, 1, MaxTypes)] :
        sv \in {Plain, DoH}, rc \in BOOLEAN, n \in 0 .. MaxConcurrency }

\* the attempts a worker records, as its recorder sees them: the query
\* type asked (the first or the last of Types), the response or the error,
\* and the latency
Outcomes ==
    { [last |-> FALSE, resp |-> Response(0, FALSE, TRUE), err |-> "nil", latency |-> 0],
      [last |-> FALSE, resp |-> Response(0, FALSE, TRUE), err |-> "nil", latency |-> 1],
      [last |-> TRUE, resp |-> Response(3, FALSE, TRUE), err |-> "nil", latency |-> 0],
      [last |-> TRUE, resp |-> Response(2, FALSE, TRUE), err |-> "nil", latency |-> 1],
      [last |-> FALSE, resp |-> NoResponse, err |-> "io", latency |-> 0],
      [last |-> TRUE, resp |-> NoResponse, err |-> "canceled", latency |-> 0] }

\* the instant of the attempt a recorder recorded last
LastStart(st) ==
    LET starts == {st.Timings[k].Start : k \in DOMAIN st.Timings}
                  \cup {st.Errors[k].Start : k \in DOMAIN st.Errors}
    IN IF starts = {} THEN 0 ELSE CHOOSE t \in starts : \A u \in starts : u <= t

\* Run has spawned its workers; their loops are followed through the
\* recorders alone
ReduceInit ==
    \E c \in ReduceConfigs :
        /\ input = c
        /\ b = prepare(c).b
        /\ run = "running"
        /\ runErr = ""
        /\ questions = prepareQuestions(c)
        /\ ctxErr = FALSE
        /\ limit = FALSE
        /\ stats = [w \in 1 .. c.Concurrency |-> NewStats(prepare(c).b)]
        /\ worker = <<>>
        /\ report = NoReport

\* a worker records an attempt: its start is no earlier than the start of
\* the attempt before it
Attempt ==
    /\ run = "running"
    /\ MergeCounters(stats).Total < MaxSent
    /\ \E w \in DOMAIN stats, o \in Outcomes :
          \E start \in LastStart(stats[w]) .. MaxStart :
             LET qt == qTypes[IF o.last THEN Len(qTypes) ELSE 1]
             IN stats' = [stats EXCEPT
                            ![w] = record(@, BuildMsg(b, questions[1], qt, 0),
                                          o.resp, o.err, start, o.latency)]
    /\ UNCHANGED <<input, b, run, runErr, questions, ctxErr, limit, worker, report>>

ReduceNext == Attempt \/ RunReturn \/ PrintReport

\* what Run can return, and PrintReport's merge of it
ReduceSpec == ReduceInit /\ [][ReduceNext]_vars

(* ------------------------------- claims ------------------------------- *)

CounterSum(c) == c.Total = c.Success + c.Negative + c.Error + c.IOError

CountMode == input.Count > 0 /\ input.Duration = 0

RECURSIVE SumTotal(_)
SumTotal(n) == IF n = 0 THEN 0 ELSE SumTotal(n - 1) + stats[n].Counters.Total

PerWorkerPlan == input.Count * Len(qTypes) * Len(questions)

\* C1: in every reachable state every recorder's Total is the sum of its
\* Success, Negative, Error and IOError, and so is the Total of the counters
\* the reducer obtains by summing the recorders
C1_CounterSum ==
    /\ \A w \in DOMAIN stats : CounterSum(stats[w].Counters)
    /\ CounterSum(MergeCounters(stats))
    /\ MergeCounters(stats).Total = SumTotal(Len(stats))

\* C1 witness: Run has returned two recorders that between them hold a
\* success, a negative answer, a server failure and an I/O error
C1_Witness ==
    /\ run = "done"
    /\ Len(stats) = 2
    /\ stats[1].Counters.IOError = 1
    /\ stats[1].Counters.Success = 1
    /\ stats[2].Counters.Negative = 1
    /\ stats[2].Counters.Error = 1

\* C2: in count mode with Probability >= 1, no send error and no
\* cancellation, when Run has returned every worker's Total is
\* Count * |Types| * |Questions| and the Totals add up to Concurrency times
\* that
C2_CountMode ==
    (/\ run = "done" /\ runErr = ""
     /\ CountMode
     /\ input.Probability >= ProbScale
     /\ ~ctxErr
     /\ \A w \in DOMAIN stats : stats[w].Counters.IOError = 0)
    => /\ \A w \in DOMAIN stats : stats[w].Counters.Total = PerWorkerPlan
       /\ SumTotal(Len(stats)) = input.Concurrency * PerWorkerPlan

\* C2 witness: two workers ran two repetitions without error and Run has
\* returned
C2_Witness ==
    /\ run = "done" /\ runErr = ""
    /\ CountMode /\ input.Count = 2 /\ input.Concurrency = 2
    /\ input.Probability >= ProbScale
    /\ ~ctxErr
    /\ \A w \in DOMAIN stats : stats[w].Counters.IOError = 0
    /\ SumTotal(Len(stats)) = 4

\* C3: once the root context is cancelled, every worker exits and Run
\* returns, whatever the configuration prepare accepted
C3_CancelledRunReturns == ctxErr ~> (run = "done")

\* C4: a worker whose context is cancelled while it waits in checkLimit
\* issues no query afterwards: it stays in checkLimit or has returned
C4_CancelledTakeSendsNothing ==
    \A w \in Workers :
        worker[w].cancelledInTake => worker[w].pc \in {"selG", "selW", "done"}

\* C5: a send that fails because the root context was cancelled during the
\* exchange leaves no entry in the recorder's error list and no IOError
C5_CancelledSendNotRecorded ==
    \A w \in Workers :
        worker[w].cancelledInFlight
            => /\ \A k \in DOMAIN stats[w].Errors :
                     stats[w].Errors[k].Err # "canceled"
               /\ stats[w].Counters.IOError =
                      Cardinality({k \in DOMAIN stats[w].Errors :
                                      stats[w].Errors[k].Err # "canceled"})

\* C6: every failing attempt is recorded as one IOError and the worker goes
\* on: in count mode with Probability >= 1 and no cancellation, when Run has
\* returned every worker's Total is Count * |Types| * |Questions| and its
\* IOError is the number of its failed sends, each in its error list
C6_ErrorsDoNotAbort ==
    /\ \A w \in Workers :
          /\ stats[w].Counters.IOError = worker[w].failures
          /\ Len(stats[w].Errors) = worker[w].failures
    /\ (run = "done" /\ runErr = "" /\ CountMode
        /\ input.Probability >= ProbScale /\ ~ctxErr)
       => \A w \in Workers :
             /\ worker[w].sent = PerWorkerPlan
             /\ stats[w].Counters.Total = PerWorkerPlan

\* C6 witness: Run has returned from a count-mode run of four queries in
\* which a dial and an exchange failed
C6_Witness ==
    /\ run = "done" /\ runErr = "" /\ CountMode
    /\ input.Probability >= ProbScale /\ ~ctxErr
    /\ PerWorkerPlan = 4
    /\ \E w \in Workers :
          /\ worker[w].failures = 2
          /\ worker[w].dials = 3
          /\ stats[w].Counters.Success = 2

\* ceil(n / k)
CeilDiv(n, k) == (n + k - 1) \div k

\* C7: with QperConn = k > 0 and no errors a worker that owns its
\* connection has dialed ceil(issued / k) times
C7_DialsPerIssued ==
    \A w \in Workers :
        (OwnsConn(b) /\ b.QperConn > 0 /\ worker[w].failures = 0
         /\ ~("canceled" \in {stats[w].Errors[k].Err : k \in DOMAIN stats[w].Errors}))
            => worker[w].dials = CeilDiv(worker[w].sent, b.QperConn)

\* C8: a worker issues a query only after a Take on the global limiter (if
\* Rate > 0) and then a Take on its own limiter (if RateLimitWorker > 0),
\* both made for that query; the worker's Take starts only after the global
\* Take of the same query returned
C8_TakesBeforeSend ==
    \A w \in Workers :
        LET ws == worker[w]
            atQuery == ws.pc = "query"
            issued == IF atQuery THEN ws.sent + 1 ELSE ws.sent
        IN /\ b.Rate > 0 => ws.gTakes >= issued
           /\ b.RateLimitWorker > 0 => ws.wTakes >= issued
           /\ (b.Rate > 0 /\ b.RateLimitWorker > 0) => ws.wTakes <= ws.gTakes
           /\ (b.Rate > 0 /\ b.RateLimitWorker > 0 /\ ws.pc = "selW")
                 => ws.gTakes = ws.sent + 1
           /\ (b.Rate > 0 /\ ws.pc = "selG") => ws.gTakes <= ws.sent + 1
           /\ (b.RateLimitWorker > 0 /\ ws.pc = "selW") => ws.wTakes <= ws.sent + 1

\* C8 witness: a worker behind both limiters sends its second query
C8_Witness ==
    \E w \in Workers :
        /\ b.Rate > 0 /\ b.RateLimitWorker > 0
        /\ worker[w].pc = "inflight"
        /\ worker[w].sent = 2
        /\ worker[w].gTakes = 2 /\ worker[w].wTakes = 2

\* C9: with Probability >= 1 no iteration is ever skipped; with
\* Probability <= 0 every iteration is skipped, whatever the draw: no query
\* is sent and Total stays 0 on every recorder
C9_ProbabilitySampling ==
    \A w \in Workers :
        /\ b.Probability >= ProbScale => ~worker[w].skipped
        /\ b.Probability <= 0
              => worker[w].sent = 0 /\ stats[w].Counters.Total = 0

\* the option is `code:hex`, code a decimal of 16 bits, hex an even number
\* of hexadecimal digits
WellFormedEdnsOpt(o) ==
    \E k \in DOMAIN o :
        /\ o[k] = ":"
        /\ k > 1
        /\ \A j \in 1 .. k - 1 : \E d \in DOMAIN DecDigits : DecDigits[d] = o[j]
        /\ DecimalValue(SubSeq(o, 1, k - 1)) < 65536
        /\ \A j \in k + 1 .. Len(o) : o[j] \in HexDigits
        /\ (Len(o) - k) % 2 = 0

\* the configurations prepare is to reject
Rejected(c) ==
    \/ c.Server = <<>>
    \/ c.Count > 0 /\ c.Duration > 0
    \/ c.Edns0 # 0 /\ c.Edns0 \notin 512 .. 4096
    \/ c.EdnsOpt # <<>> /\ ~WellFormedEdnsOpt(c.EdnsOpt)

\* C10: when prepare fails the run does not start: once Run is called it
\* has returned the error, with no recorder, no worker and no limiter
C10_RejectedRunDoesNotStart ==
    (Rejected(input) /\ run # "init")
        => /\ run = "done" /\ runErr # ""
           /\ stats = <<>> /\ worker = <<>> /\ ~limit

\* C10 witness: Run has returned the error of an option whose code is past
\* 16 bits
C10_Witness ==
    /\ run = "done"
    /\ input.EdnsOpt = <<"6", "5", "5", "3", "6", ":", "a", "b">>
    /\ input.Server # <<>> /\ input.Edns0 = 0 /\ input.Duration = 0
    /\ runErr = "--ednsopt is not in correct format, code is not a decimal number"
    /\ stats = <<>> /\ worker = <<>>

\* C11: after prepare has accepted a configuration its termination bound is
\* exactly one of a positive Count and a positive Duration
C11_ExactlyOneBound ==
    (run # "init" /\ runErr = "")
        => ((b.Count > 0) # (b.Duration > 0))

\* C12: a recorder changes only in a step of the worker it was created for,
\* while Run is running; Run returns only when every worker has exited, and
\* no recorder changes after Run has returned
C12_RecorderOwnership ==
    [][ /\ \A w \in DOMAIN stats :
              (w \in DOMAIN stats' /\ stats'[w] # stats[w])
                 => /\ run = "running" /\ run' = "running"
                    /\ worker[w].pc \in {"query", "inflight"}
                    /\ worker'[w] # worker[w]
                    /\ \A v \in DOMAIN stats \ {w} :
                          stats'[v] = stats[v] /\ worker'[v] = worker[v]
        /\ run = "done" => (stats' = stats /\ run' = "done")
        /\ (run = "running" /\ run' = "done")
              => \A w \in Workers : worker[w].pc = "done"
      ]_vars

\* C12 witness: Run has returned the recorders of two workers, each of which
\* recorded an attempt
C12_Witness ==
    /\ run = "done" /\ runErr = ""
    /\ Len(stats) = 2
    /\ \A w \in DOMAIN stats : stats[w].Counters.Total >= 1

\* (i, q, qt) order: x precedes y
LexLess(x, y) ==
    \/ x[1] < y[1]
    \/ x[1] = y[1] /\ x[2] < y[2]
    \/ x[1] = y[1] /\ x[2] = y[2] /\ x[3] < y[3]

\* C13: a worker issues its requests one at a time and in the order of
\* (repetition, question, type): the request it is about to issue comes
\* after the one it issued last, and the request in flight is the last issued
C13_IssuedInOrder ==
    \A w \in Workers :
        LET ws == worker[w]
        IN /\ (ws.pc = "query" /\ ws.last # <<>>) => LexLess(ws.last, Pos(ws))
           /\ ws.pc = "inflight" => ws.last = Pos(ws)
           /\ ws.last # <<>> => ws.sent >= 1

\* C13 witness: the last request of two questions by two types is in flight
\* after the three before it
C13_Witness ==
    \E w \in Workers :
        /\ worker[w].pc = "inflight"
        /\ Len(questions) = 2 /\ Len(qTypes) = 2
        /\ Pos(worker[w]) = <<0, 2, 2>>
        /\ worker[w].sent = 4

\* f[1] + ... + f[n]
RECURSIVE SumTo(_, _)
SumTo(f, n) == IF n = 0 THEN 0 ELSE SumTo(f, n - 1) + f[n]

\* the count recorder w holds under key k of the map named field
Tally(w, field, k) ==
    LET m == stats[w][field]
    IN IF ~m.nil /\ k \in DOMAIN m.kv THEN m.kv[k] ELSE 0

\* totals holds, for every key of a recorder's map, the sum over the recorders
MapIsSum(totals, field) ==
    /\ DOMAIN totals =
          UNION {DOMAIN stats[w][field].kv : w \in DOMAIN stats}
    /\ \A k \in DOMAIN totals :
          totals[k] = SumTo([w \in DOMAIN stats |-> Tally(w, field, k)], Len(stats))

\* the j-th element of the recorders' sequences named field, put end to end
Joined(field) ==
    LET len == [w \in DOMAIN stats |-> Len(stats[w][field])]
        offset(w) == SumTo(len, w - 1)
    IN [j \in 1 .. SumTo(len, Len(stats)) |->
          LET w == CHOOSE v \in DOMAIN stats : offset(v) < j /\ j <= offset(v) + len[v]
          IN stats[w][field][j - offset(w)]]

\* sorted is joined in the order of a stable sort on Start
StableSorted(sorted, joined) ==
    /\ Len(sorted) = Len(joined)
    /\ \A j \in 1 .. Len(sorted) - 1 : sorted[j].Start <= sorted[j + 1].Start
    /\ \A t \in 0 .. MaxStart + 1 :
          SelectSeq(sorted, LAMBDA e : e.Start = t)
              = SelectSeq(joined, LAMBDA e : e.Start = t)

\* C14: the reducer's counters and map values are the sums over the
\* recorders, and its timing and error sequences are the recorders'
\* sequences put end to end and stable-sorted by start
C14_ReducerMerge ==
    report.pc = "merged"
        => /\ \A c \in DOMAIN NewCounters :
                 report.totalCounters[c] =
                     SumTo([w \in DOMAIN stats |-> stats[w].Counters[c]], Len(stats))
           /\ MapIsSum(report.qtypeTotals, "Qtypes")
           /\ MapIsSum(report.codeTotals, "Codes")
           /\ MapIsSum(report.dohResponseStatusesTotals, "DoHStatusCodes")
           /\ StableSorted(report.times, Joined("Timings"))
           /\ StableSorted(report.errTimes, Joined("Errors"))

\* C14 witness: the reducer has put the later timing of the first recorder
\* behind the earlier one of the second, and summed two rcodes and two qtypes
C14_Witness ==
    /\ report.pc = "merged"
    /\ Len(stats) = 2
    /\ Len(report.times) = 2
    /\ report.times # Joined("Timings")
    /\ report.times[1].Start < report.times[2].Start
    /\ Cardinality(DOMAIN report.codeTotals) = 2
    /\ Cardinality(DOMAIN report.qtypeTotals) = 2

\* the server without its quic:// scheme
Stripped(c) == IF HasQuicPrefix(c.Server) THEN Tail(c.Server) ELSE c.Server

\* 853 for DoT and DoQ, 53 otherwise
DefaultPort(c) == IF c.DOT \/ HasQuicPrefix(c.Server) THEN "853" ELSE "53"

\* the server is in host:port form
HasPort(srv) == \E k \in DOMAIN srv : srv[k] = ":"

\* C15 as stated: prepare leaves a DoH server without a port and a host:port
\* server as it is, and appends :53, or :853 for DoT and DoQ, to any other
C15_PortAppended ==
    (run # "init" /\ input.Server # <<>>)
        => IF isHTTPUrl(input.Server)
           THEN b.Server \in {input.Server, input.Server \o <<"/dns-query">>}
           ELSE IF HasPort(Stripped(input))
           THEN b.Server = Stripped(input)
           ELSE b.Server = Stripped(input) \o <<":", DefaultPort(input)>>

\* C15 amended: as C15, but a server that holds a colon and no port (an
\* IPv6 literal) is put in brackets before the port is appended
C15_PortDefaulting ==
    (run # "init" /\ input.Server # <<>>)
        => IF isHTTPUrl(input.Server)
           THEN b.Server \in {input.Server, input.Server \o <<"/dns-query">>}
           ELSE IF HasPort(Stripped(input))
           THEN b.Server = Stripped(input)
           ELSE IF \E k \in DOMAIN input.Server : input.Server[k] \in ColonHosts
           THEN b.Server = <<"[">> \o Stripped(input)
                               \o <<"]", ":", DefaultPort(input)>>
           ELSE b.Server = Stripped(input) \o <<":", DefaultPort(input)>>

\* C15 witness: prepare has made quic://ns into ns:853
C15_Witness ==
    /\ run # "init"
    /\ input.Server = <<"quic://", "ns">> /\ ~input.DOT
    /\ b.Server = <<"ns", ":", "853">>

\* C16: in DoQ mode every message handed to the transport carries
\* transaction id 0; in the other modes the id is one the PRNG can draw
C16_DoQIdZero ==
    \A w \in Workers :
        worker[w].pc = "inflight"
            => /\ b.useQuic => worker[w].m.Id = 0
               /\ worker[w].m.Id \in Ids

\* C16 witness: in DoQ mode a worker's second request, for the second query
\* type, is in flight with id 0
C16_Witness ==
    /\ b.useQuic
    /\ \E w \in Workers :
          /\ worker[w].pc = "inflight" /\ worker[w].sent = 2
          /\ worker[w].m.Id = 0
          /\ worker[w].m.Question[1].Qtype = "AAAA"

\* the sum of the counts a map holds
RECURSIVE SumOver(_, _)
SumOver(kv, keys) ==
    IF keys = {} THEN 0
    ELSE LET k == CHOOSE x \in keys : TRUE
         IN kv[k] + SumOver(kv, keys \ {k})

MapTotal(m) == SumOver(m.kv, DOMAIN m.kv)

\* C17: on every recorder the per-qtype tallies sum to Success + Negative +
\* Error, and so do the rcode counts, the histogram's observations and the
\* timing list: an IOError adds to none of them and goes to the error list;
\* a response adds one to the tally of the request's query type, so a
\* count-mode run without skips and errors ends with Count * |Questions|
\* under every query type
C17_QtypeSum ==
    \A w \in DOMAIN stats :
        LET st == stats[w]
            answered == st.Counters.Success + st.Counters.Negative
                        + st.Counters.Error
        IN /\ DOMAIN st.Qtypes.kv \subseteq {qTypes[k] : k \in DOMAIN qTypes}
           /\ MapTotal(st.Qtypes) = answered
           /\ ~st.Codes.nil => MapTotal(st.Codes) = answered
           /\ MapTotal(st.Hist) = answered
           /\ Len(st.Timings) = answered
           /\ Len(st.Errors) = st.Counters.IOError
           /\ (run = "done" /\ CountMode /\ input.Probability >= ProbScale
               /\ ~ctxErr /\ st.Counters.IOError = 0 /\ Len(questions) > 0)
                 => \A k \in DOMAIN qTypes :
                       /\ qTypes[k] \in DOMAIN st.Qtypes.kv
                       /\ st.Qtypes.kv[qTypes[k]] = input.Count * Len(questions)

\* C17 witness: a recorder holds a response for each of two query types and
\* two I/O errors
C17_Witness ==
    \E w \in DOMAIN stats :
        /\ stats[w].Counters.IOError = 2
        /\ DOMAIN stats[w].Qtypes.kv = {"A", "AAAA"}
        /\ stats[w].Qtypes.kv["A"] = 1 /\ stats[w].Qtypes.kv["AAAA"] = 1
        /\ stats[w].Counters.Total = 4

\* C18: a worker closes and redials its open connection before a send only
\* when QperConn > 0 and the repetition counter i is a positive multiple of
\* QperConn: never during repetition 0
C18_RotationOnlyAfterZero ==
    [][ \A w \in Workers :
          (/\ OwnsConn(b)
           /\ worker[w].pc = "query"
           /\ worker[w].co = "open"
           /\ worker'[w].dials = worker[w].dials + 1)
             => /\ b.QperConn > 0
                /\ worker[w].i % b.QperConn = 0
                /\ worker[w].i > 0
      ]_vars

\* C19: a worker's connection handle is nil or an open connection; it
\* becomes open only by a dial made for a query and nil only by a close;
\* after a failed dial or a failed exchange it is nil; a failed dial is
\* followed by no exchange for that query; a query that finds the handle nil
\* dials exactly once, and an exchange runs only on an open connection
C19_ConnectionStates ==
    [][ \A w \in Workers :
          LET ws == worker[w]
              wt == worker'[w]
          IN /\ wt.co \in {"nil", "open"}
             /\ wt.dials \in {ws.dials, ws.dials + 1}
             /\ wt.dials = ws.dials + 1 => (ws.pc = "query" /\ OwnsConn(b))
             /\ (ws.co = "nil" /\ wt.co = "open") => wt.dials = ws.dials + 1
             /\ wt.failures = ws.failures + 1 => wt.co = "nil"
             /\ (ws.pc = "query" /\ wt.failures = ws.failures + 1)
                   => (wt.pc # "inflight" /\ wt.dials = ws.dials + 1)
             /\ (OwnsConn(b) /\ ws.pc = "query" /\ ws.co = "nil"
                 /\ wt.sent = ws.sent + 1) => wt.dials = ws.dials + 1
             /\ (OwnsConn(b) /\ wt.pc = "inflight") => wt.co = "open"
             /\ ~OwnsConn(b) => (wt.co = "nil" /\ wt.dials = 0)
      ]_vars

\* C19 witness: after a failed exchange and a failed dial the worker has
\* dialed a third time and its request is in flight on the new connection
C19_Witness ==
    \E w \in Workers :
        /\ OwnsConn(b) /\ b.QperConn = 0
        /\ worker[w].pc = "inflight" /\ worker[w].co = "open"
        /\ worker[w].failures = 2 /\ worker[w].dials = 3
        /\ worker[w].sent = 3
        /\ stats[w].Counters.IOError = 2

\* C20: a built message has one question {q, qt, IN} and at most one OPT
\* record: none iff Edns0 = 0, EdnsOpt is empty and DNSSEC is off; its
\* payload size is Edns0 if Edns0 > 0 and 1232 if not; it holds one local
\* option, the code and the bytes EdnsOpt spells, iff EdnsOpt is set, and
\* its DO bit is DNSSEC
C20_QueryBuilder ==
    \A w \in Workers :
        worker[w].pc = "inflight"
            => LET m == worker[w].m
                   ws == worker[w]
               IN /\ m.Question = <<[Name |-> questions[ws.qi],
                                      Qtype |-> qTypes[ws.ti], Qclass |-> "IN"]>>
                  /\ Len(m.Extra) <= 1
                  /\ Len(m.Extra) = 0
                        <=> (b.Edns0 = 0 /\ b.EdnsOpt = <<>> /\ ~b.DNSSEC)
                  /\ Len(m.Extra) = 1
                        => LET opt == m.Extra[1]
                           IN /\ opt.UDPSize = IF b.Edns0 > 0 THEN b.Edns0 ELSE 1232
                              /\ opt.Do = b.DNSSEC
                              /\ Len(opt.Option) = IF b.EdnsOpt = <<>> THEN 0 ELSE 1
                              /\ b.EdnsOpt = <<"1", ":", "a", "b">>
                                    => opt.Option = <<[Code |-> 1, Data |-> <<171>>]>>
                              /\ b.EdnsOpt = <<"6", "5", "5", "3", "5", ":",
                                               "F", "f", "0", "0">>
                                    => opt.Option =
                                         <<[Code |-> 65535, Data |-> <<255, 0>>]>>
                              /\ b.EdnsOpt = <<"0", ":">>
                                    => opt.Option = <<[Code |-> 0, Data |-> <<>>]>>

\* C20 witness: a message is in flight whose OPT record was made for the
\* option alone: default payload size, the option 65535:Ff00, DO clear
C20_Witness ==
    \E w \in Workers :
        /\ worker[w].pc = "inflight"
        /\ b.Edns0 = 0 /\ ~b.DNSSEC
        /\ worker[w].m.Extra =
              <<[UDPSize |-> 1232, Do |-> FALSE,
                 Option |-> <<[Code |-> 65535, Data |-> <<255, 0>>]>>]>>

\* C21: every call of the query func is followed, before the worker's next
\* call or its exit, by exactly one record on that worker's recorder: the
\* recorder's Total is the number of calls made, less the one in flight; a
\* step that makes no call and ends none (a skipped iteration, a cancelled
\* Take, an exit) leaves the recorder as it was
C21_OneRecordPerSend ==
    [][ \A w \in DOMAIN worker' :
          LET wt == worker'[w]
              inflight == IF wt.pc = "inflight" THEN 1 ELSE 0
          IN /\ stats'[w].Counters.Total = wt.sent - inflight
             /\ Len(stats'[w].Errors) + Len(stats'[w].Timings)
                   = stats'[w].Counters.Total
             /\ w \in DOMAIN worker =>
                   LET ws == worker[w]
                   IN /\ stats'[w].Counters.Total
                           \in {stats[w].Counters.Total,
                                stats[w].Counters.Total + 1}
                      /\ (ws.pc # "inflight" /\ wt.sent = ws.sent)
                            => stats'[w] = stats[w]
                      /\ (ws.pc = "inflight" /\ wt.pc # "inflight")
                            => stats'[w].Counters.Total
                                  = stats[w].Counters.Total + 1
      ]_vars

\* C21 witness: a worker that skipped an iteration stands at a loop top
\* after two sends, one answered and one failed, and its recorder holds
\* two records
C21_Witness ==
    \E w \in Workers :
        /\ worker[w].pc = "top"
        /\ worker[w].skipped
        /\ worker[w].sent = 2
        /\ stats[w].Counters.Total = 2
        /\ Len(stats[w].Errors) = 1 /\ Len(stats[w].Timings) = 1

\* the connections of a worker that are open
OpenConns(ws) == {k \in DOMAIN ws.conns : ws.conns[k] = "open"}

\* C22: with plain DNS or DoT a worker holds at most one open connection:
\* when a connection is dialed every earlier one of the worker is closed,
\* the handle is non-nil exactly when the last connection dialed is open, an
\* exchange runs on a connection that is open, a closed connection stays
\* closed, and a step that dials, uses or closes a connection of one
\* worker is a step of that worker, which leaves the other workers alone
C22_OneOpenConnection ==
    [][ \A w \in DOMAIN worker' :
          LET conns == worker'[w].conns
              n == Len(conns)
              inHand == n > 0 /\ conns[n] = "open"
          IN /\ \A j, k \in 1 .. n :
                   (conns[j] = "open" /\ conns[k] = "open") => j = k
             /\ \A k \in 1 .. n - 1 : conns[k] = "closed"
             /\ worker'[w].co = "open" <=> inHand
             /\ (OwnsConn(b) /\ worker'[w].pc = "inflight") => inHand
             /\ ~OwnsConn(b) => n = 0
             /\ (w \in DOMAIN worker /\ conns # worker[w].conns)
                   => LET old == worker[w].conns
                      IN /\ n \in {Len(old), Len(old) + 1}
                         /\ \A k \in 1 .. Len(old) :
                               old[k] = "closed" => conns[k] = "closed"
                         /\ worker[w].pc \in {"query", "inflight"}
                         /\ worker'[w].pc # worker[w].pc
                               \/ worker'[w].sent # worker[w].sent
                         /\ \A v \in DOMAIN worker \ {w} :
                               worker'[v] = worker[v]
      ]_vars

\* C22 witness: two workers each hold an open connection with a request in
\* flight on it; one of them has closed a connection before and dialed the
\* one it holds as a replacement
C22_Witness ==
    \E w, v \in Workers :
        /\ w # v
        /\ worker[w].pc = "inflight" /\ worker[w].conns = <<"closed", "open">>
        /\ worker[v].pc = "inflight" /\ worker[v].conns = <<"open">>

\* C23: a worker that has exited (its loop ended, it found the context
\* cancelled at a loop top, or a limiter wait was cancelled) holds no open
\* connection, and when Run has returned every connection a worker dialed
\* is closed
C23_NoConnectionAtExit ==
    /\ \A w \in Workers :
          worker[w].pc = "done"
              => (worker[w].co = "nil" /\ OpenConns(worker[w]) = {})
    /\ run = "done" => \A w \in Workers : OpenConns(worker[w]) = {}

\* C24: prepare applied to a configuration that prepare has accepted
\* returns nil and leaves Server, useDoH, useQuic, Count, Duration and
\* HistMax as they were
C24_PrepareIdempotent ==
    [][ (run = "prepared" /\ runErr = "")
          => /\ runErr' = ""
             /\ b'.Server = b.Server
             /\ b'.useDoH = b.useDoH
             /\ b'.useQuic = b.useQuic
             /\ b'.Count = b.Count
             /\ b'.Duration = b.Duration
             /\ b'.HistMax = b.HistMax
      ]_vars

====
